---- MODULE Spec2Model ----
(***************************************************************************)
(* Response-id security hook of the proxy                                  *)
(* (litellm/proxy/hooks/responses_id_security.py, class ResponsesIDSecurity)*)
(*                                                                         *)
(* Strings are sequences of symbols.  A symbol is a record [c, k, p]:      *)
(*   - a literal piece of text:  [c |-> text, k |-> "", p |-> <<>>]        *)
(*   - a ciphertext:             [c |-> "enc", k |-> key, p |-> plaintext] *)
(* The fixed markers of the wire format ("resp_", ";", "user_id:", ...)    *)
(* are single symbols, so str.split and str.startswith on them are exact.  *)
(***************************************************************************)
EXTENDS Integers, Sequences, FiniteSets, TLC

VARIABLES signing_key, disable_responses_id_security, internal_usage_cache,
          cache, issued, last, in_flight

vars == <<signing_key, disable_responses_id_security, internal_usage_cache,
          cache, issued, last, in_flight>>

(***************************************************************************)
(* Bounds of the model                                                     *)
(***************************************************************************)
MaxIssued == 1

\* chunks of one response stream
MaxChunks == 2

\* records awaiting the cache at one time
MaxInFlight == 2

(***************************************************************************)
(* Strings                                                                 *)
(***************************************************************************)
L(text) == [c |-> text, k |-> "", p |-> <<>>]

S(text) == <<L(text)>>

\* Python's None, a value different from every string
None == <<[c |-> "None", k |-> "None", p |-> <<>>]>>

\* Python truthiness of an Optional[str]
Truthy(s) == s # None /\ s # <<>>

\* `x or ""`
OrEmpty(s) == IF Truthy(s) THEN s ELSE <<>>

RECURSIVE SplitFrom(_, _, _, _)
SplitFrom(s, sep, i, cur) ==
    IF i > Len(s) THEN <<cur>>
    ELSE IF s[i] = sep THEN <<cur>> \o SplitFrom(s, sep, i + 1, <<>>)
    ELSE SplitFrom(s, sep, i + 1, Append(cur, s[i]))

\* str.split(sep) for a separator that is one symbol
Split(s, sep) == SplitFrom(s, L(sep), 1, <<>>)

\* str.startswith(prefix) for a prefix that is one symbol
StartsWith(s, prefix) == Len(s) >= 1 /\ s[1] = L(prefix)

Last(seq) == seq[Len(seq)]

(***************************************************************************)
(* Collaborators outside this file: the symmetric primitive and the        *)
(* wire-format constants (contract of the specification, sections 3, 6)    *)
(***************************************************************************)
\* "no signing key configured"
NoKey == "NoKey"

\* SpecialEnums.LITELM_MANAGED_FILE_ID_PREFIX.value
LITELM_MANAGED_FILE_ID_PREFIX == "litellm_proxy"

\* SpecialEnums.LITELLM_MANAGED_RESPONSE_API_RESPONSE_ID_COMPLETE_STR.value.format(a, b, c):
\* "litellm_proxy:responses_api:response_id:{};user_id:{};team_id:{}"
LITELLM_MANAGED_RESPONSE_API_RESPONSE_ID_COMPLETE_STR(a, b, c) ==
    <<L(LITELM_MANAGED_FILE_ID_PREFIX), L(":responses_api:"), L("response_id:")>>
        \o a \o <<L(";"), L("user_id:")>> \o b \o <<L(";"), L("team_id:")>> \o c

\* encrypt(plaintext) -> opaque string, keyed by the configured signing key
encrypt_value_helper(value) ==
    <<[c |-> "enc", k |-> signing_key, p |-> value]>>

\* decrypt(opaque) -> plaintext, or absent on any failure (wrong or missing
\* key, corrupted or foreign input).  The body of the helper is outside this
\* file; the call sites pass return_original_value=True, whose effect is the
\* helper's and is not part of this contract.
decrypt_value_helper(value) ==
    IF /\ signing_key # NoKey
       /\ Len(value) = 1
       /\ value[1].c = "enc"
       /\ value[1].k = signing_key
    THEN value[1].p
    ELSE None

(***************************************************************************)
(* Access Control Checker                                                  *)
(***************************************************************************)
PROXY_ADMIN == "proxy_admin"

\* variant: the admin short-cut is missing
check_user_access_without_admin(response_id_user_id, response_id_team_id, user_api_key_dict) ==
    IF /\ Truthy(response_id_user_id)
       /\ response_id_user_id # user_api_key_dict.user_id
    THEN IF disable_responses_id_security THEN "True"
         ELSE "HTTPException_403_user"
    ELSE IF /\ Truthy(response_id_team_id)
            /\ response_id_team_id # user_api_key_dict.team_id
    THEN IF disable_responses_id_security THEN "True"
         ELSE "HTTPException_403_team"
    ELSE "True"

\* variant: the team is compared before the user
check_user_access_team_first(response_id_user_id, response_id_team_id, user_api_key_dict) ==
    IF user_api_key_dict.user_role = PROXY_ADMIN THEN "True"
    ELSE IF /\ Truthy(response_id_team_id)
            /\ response_id_team_id # user_api_key_dict.team_id
    THEN IF disable_responses_id_security THEN "True"
         ELSE "HTTPException_403_team"
    ELSE IF /\ Truthy(response_id_user_id)
            /\ response_id_user_id # user_api_key_dict.user_id
    THEN IF disable_responses_id_security THEN "True"
         ELSE "HTTPException_403_user"
    ELSE "True"

\* variant: the team mismatch forgets the disable flag
check_user_access_team_not_bypassed(response_id_user_id, response_id_team_id, user_api_key_dict) ==
    IF user_api_key_dict.user_role = PROXY_ADMIN THEN "True"
    ELSE IF /\ Truthy(response_id_user_id)
            /\ response_id_user_id # user_api_key_dict.user_id
    THEN IF disable_responses_id_security THEN "True"
         ELSE "HTTPException_403_user"
    ELSE IF /\ Truthy(response_id_team_id)
            /\ response_id_team_id # user_api_key_dict.team_id
    THEN "HTTPException_403_team"
    ELSE "True"

\* variant: an unset owner id is compared like a set one
check_user_access_unset_compared(response_id_user_id, response_id_team_id, user_api_key_dict) ==
    IF user_api_key_dict.user_role = PROXY_ADMIN THEN "True"
    ELSE IF response_id_user_id # user_api_key_dict.user_id
    THEN IF disable_responses_id_security THEN "True"
         ELSE "HTTPException_403_user"
    ELSE IF response_id_team_id # user_api_key_dict.team_id
    THEN IF disable_responses_id_security THEN "True"
         ELSE "HTTPException_403_team"
    ELSE "True"

\* check_user_access_to_response_id: "True", or the HTTPException it raises
check_user_access_to_response_id(response_id_user_id, response_id_team_id, user_api_key_dict) ==
    IF user_api_key_dict.user_role = PROXY_ADMIN THEN "True"
    ELSE IF /\ Truthy(response_id_user_id)
            /\ response_id_user_id # user_api_key_dict.user_id
    THEN IF disable_responses_id_security THEN "True"
         ELSE "HTTPException_403_user"
    ELSE IF /\ Truthy(response_id_team_id)
            /\ response_id_team_id # user_api_key_dict.team_id
    THEN IF disable_responses_id_security THEN "True"
         ELSE "HTTPException_403_team"
    ELSE "True"

(***************************************************************************)
(* Token Codec                                                             *)
(***************************************************************************)
_is_encrypted_response_id(response_id) ==
    LET split_result == Split(response_id, "resp_") IN
    IF Len(split_result) < 2 THEN FALSE
    ELSE LET remaining_string == split_result[2]
             decrypted_value == decrypt_value_helper(remaining_string)
         IN  IF decrypted_value = None THEN FALSE
             ELSE StartsWith(decrypted_value, LITELM_MANAGED_FILE_ID_PREFIX)

\* a result of _decrypt_response_id: the returned tuple, or the exception
Decoded(rid, uid, tid) ==
    [exc |-> "none", original_response_id |-> rid, user_id |-> uid, team_id |-> tid]

Raised(e) ==
    [exc |-> e, original_response_id |-> None, user_id |-> None, team_id |-> None]

_decrypt_response_id(response_id) ==
    LET split_result == Split(response_id, "resp_") IN
    IF Len(split_result) < 2 THEN Decoded(response_id, None, None)
    ELSE LET remaining_string == split_result[2]
             decrypted_value == decrypt_value_helper(remaining_string)
         IN  IF decrypted_value = None THEN Decoded(response_id, None, None)
             ELSE IF StartsWith(decrypted_value, LITELM_MANAGED_FILE_ID_PREFIX)
             THEN LET parts == Split(decrypted_value, ";") IN
                  IF Len(parts) >= 2
                  THEN IF Len(parts) < 3 THEN Raised("IndexError")   \* parts[2]
                       ELSE Decoded(Last(Split(parts[1], "response_id:")),
                                    Last(Split(parts[2], "user_id:")),
                                    Last(Split(parts[3], "team_id:")))
                  ELSE Decoded(response_id, None, None)
             ELSE Decoded(response_id, None, None)

(***************************************************************************)
(* Mapping Cache Accessor                                                  *)
(***************************************************************************)
RESPONSE_ID_SECURITY_CACHE_PREFIX == "litellm:responses_id_security:response_id:"

\* 60 * 60 * 24 seconds: 24 hours
RESPONSE_ID_SECURITY_CACHE_TTL_SECONDS == 86400

\* Optional[Dict]: None, or the stored dict
NoMapping == [is_none |-> TRUE, response_id |-> None, user_id |-> None, team_id |-> None]

Mapping(rid, uid, tid) ==
    [is_none |-> FALSE, response_id |-> rid, user_id |-> uid, team_id |-> tid]

CacheKey(encrypted_response_id) ==
    S(RESPONSE_ID_SECURITY_CACHE_PREFIX) \o encrypted_response_id

\* internal_usage_cache.async_get_cache(key): the live entry, or None
async_get_cache(key) ==
    IF \E e \in cache : e.key = key
    THEN (CHOOSE e \in cache : e.key = key).value
    ELSE NoMapping

\* internal_usage_cache.async_set_cache(key, value, ttl): the cache afterwards
async_set_cache(key, value, ttl) ==
    {e \in cache : e.key # key} \cup {[key |-> key, value |-> value, ttl |-> ttl]}

\* get_raises: the cache's transport raises on this call
\* a lookup under the bare token, without the namespace of the record
_get_cached_without_prefix(encrypted_response_id, get_raises) ==
    IF ~internal_usage_cache THEN NoMapping
    ELSE IF get_raises THEN NoMapping
    ELSE async_get_cache(encrypted_response_id)

\* a lookup that answers from what is stored although the get raised
_get_cached_unguarded(encrypted_response_id, get_raises) ==
    IF ~internal_usage_cache THEN NoMapping
    ELSE async_get_cache(CacheKey(encrypted_response_id))

_get_cached_response_id_mapping(encrypted_response_id, get_raises) ==
    IF ~internal_usage_cache THEN NoMapping
    ELSE IF get_raises THEN NoMapping
    ELSE async_get_cache(CacheKey(encrypted_response_id))

\* the arguments _cache_response_id_mapping hands to async_set_cache
CacheWrite(encrypted_response_id, original_response_id, user_api_key_dict) ==
    [key |-> CacheKey(encrypted_response_id),
     value |-> Mapping(original_response_id, user_api_key_dict.user_id,
                       user_api_key_dict.team_id),
     ttl |-> RESPONSE_ID_SECURITY_CACHE_TTL_SECONDS]

\* a record filed under the plaintext id instead of the token
_cache_mapping_under_plaintext(encrypted_response_id, original_response_id, user_api_key_dict, set_raises) ==
    IF ~internal_usage_cache THEN cache
    ELSE IF set_raises THEN cache
    ELSE async_set_cache(CacheKey(original_response_id),
                         Mapping(original_response_id, user_api_key_dict.user_id,
                                 user_api_key_dict.team_id),
                         RESPONSE_ID_SECURITY_CACHE_TTL_SECONDS)

\* set_raises: the cache's transport raises on this call; the cache afterwards
_cache_response_id_mapping(encrypted_response_id, original_response_id, user_api_key_dict, set_raises) ==
    IF ~internal_usage_cache THEN cache
    ELSE IF set_raises THEN cache
    ELSE LET w == CacheWrite(encrypted_response_id, original_response_id,
                             user_api_key_dict)
         IN  async_set_cache(w.key, w.value, w.ttl)

(***************************************************************************)
(* Response-ID Gate: inbound resolve                                       *)
(***************************************************************************)
\* outcome of _resolve_encrypted_response_id: exc is "none" or the exception
\* that leaves it, ret the returned Optional[str]; path, checked, chk_user
\* and chk_team record which branch ran and the owner handed to
\* check_user_access_to_response_id
Resolved(exc, ret, path, checked, uid, tid) ==
    [exc |-> exc, ret |-> ret, path |-> path, checked |-> checked,
     chk_user |-> uid, chk_team |-> tid]

\* variant: the token test is missing, every id is decoded and checked
_resolve_without_token_test(response_id, user_api_key_dict, get_raises) ==
    LET d == _decrypt_response_id(response_id) IN
    IF d.exc # "none"
    THEN Resolved(d.exc, None, "token", FALSE, None, None)
    ELSE LET a == check_user_access_to_response_id(d.user_id, d.team_id,
                                                   user_api_key_dict)
         IN  IF a # "True"
             THEN Resolved(a, None, "token", TRUE, d.user_id, d.team_id)
             ELSE Resolved("none", d.original_response_id, "token", TRUE,
                           d.user_id, d.team_id)

\* variant: a cached mapping is returned without the access check
_resolve_cache_unchecked(response_id, user_api_key_dict, get_raises) ==
    IF _is_encrypted_response_id(response_id)
    THEN LET d == _decrypt_response_id(response_id) IN
         IF d.exc # "none"
         THEN Resolved(d.exc, None, "token", FALSE, None, None)
         ELSE LET a == check_user_access_to_response_id(d.user_id, d.team_id,
                                                        user_api_key_dict)
              IN  IF a # "True"
                  THEN Resolved(a, None, "token", TRUE, d.user_id, d.team_id)
                  ELSE Resolved("none", d.original_response_id, "token", TRUE,
                                d.user_id, d.team_id)
    ELSE LET cached_mapping ==
                 _get_cached_response_id_mapping(response_id, get_raises)
         IN  IF cached_mapping.is_none
             THEN Resolved("none", None, "none", FALSE, None, None)
             ELSE Resolved("none", cached_mapping.response_id, "cache", FALSE,
                           None, None)

_resolve_encrypted_response_id(response_id, user_api_key_dict, get_raises) ==
    IF _is_encrypted_response_id(response_id)
    THEN LET d == _decrypt_response_id(response_id) IN
         IF d.exc # "none"
         THEN Resolved(d.exc, None, "token", FALSE, None, None)
         ELSE LET a == check_user_access_to_response_id(d.user_id, d.team_id,
                                                        user_api_key_dict)
              IN  IF a # "True"
                  THEN Resolved(a, None, "token", TRUE, d.user_id, d.team_id)
                  ELSE Resolved("none", d.original_response_id, "token", TRUE,
                                d.user_id, d.team_id)
    ELSE LET cached_mapping ==
                 _get_cached_response_id_mapping(response_id, get_raises)
         IN  IF cached_mapping.is_none
             THEN Resolved("none", None, "none", FALSE, None, None)
             ELSE LET cached_user_id == cached_mapping.user_id
                      cached_team_id == cached_mapping.team_id
                      a == check_user_access_to_response_id(
                               cached_user_id, cached_team_id, user_api_key_dict)
                  IN  IF a # "True"
                      THEN Resolved(a, None, "cache", TRUE,
                                    cached_user_id, cached_team_id)
                      ELSE Resolved("none", cached_mapping.response_id, "cache",
                                    TRUE, cached_user_id, cached_team_id)

NotResolved == Resolved("none", None, "skipped", FALSE, None, None)

responses_api_call_types ==
    {"aresponses", "aget_responses", "adelete_responses", "acancel_responses"}

\* outcome of async_pre_call_hook: exc is "none" or the exception that leaves
\* it, returned_none tells `return None` from `return data`, data is the
\* request dict afterwards (it is mutated in place), res the inbound resolve
\* that ran
PreCallResult(exc, returned_none, data, res) ==
    [exc |-> exc, returned_none |-> returned_none, data |-> data, res |-> res]

\* a hook that stores the decoded id in the request before the access check
async_pre_call_hook_store_first(user_api_key_dict, data, call_type, get_raises) ==
    IF call_type \notin responses_api_call_types
    THEN PreCallResult("none", TRUE, data, NotResolved)
    ELSE LET id == IF call_type = "aresponses" THEN data.previous_response_id
                   ELSE data.response_id
             stored == _decrypt_response_id(id).original_response_id
             r == _resolve_encrypted_response_id(id, user_api_key_dict,
                                                 get_raises)
             written == IF r.exc # "none" THEN stored ELSE r.ret
         IN  IF ~Truthy(id) THEN PreCallResult("none", FALSE, data, NotResolved)
             ELSE IF written = None THEN PreCallResult(r.exc, FALSE, data, r)
             ELSE IF call_type = "aresponses"
             THEN PreCallResult(r.exc, FALSE,
                      [data EXCEPT !.previous_response_id = written], r)
             ELSE PreCallResult(r.exc, FALSE,
                      [data EXCEPT !.response_id = written], r)

\* a hook that reads and rewrites previous_response_id whatever the call type
async_pre_call_hook_one_field(user_api_key_dict, data, call_type, get_raises) ==
    IF call_type \notin responses_api_call_types
    THEN PreCallResult("none", TRUE, data, NotResolved)
    ELSE IF Truthy(data.previous_response_id)
    THEN LET r == _resolve_encrypted_response_id(
                      data.previous_response_id, user_api_key_dict, get_raises)
         IN  IF r.exc # "none" THEN PreCallResult(r.exc, FALSE, data, r)
             ELSE IF r.ret # None
             THEN PreCallResult("none", FALSE,
                      [data EXCEPT !.previous_response_id = r.ret], r)
             ELSE PreCallResult("none", FALSE, data, r)
    ELSE PreCallResult("none", FALSE, data, NotResolved)

async_pre_call_hook(user_api_key_dict, data, call_type, get_raises) ==
    IF call_type \notin responses_api_call_types
    THEN PreCallResult("none", TRUE, data, NotResolved)
    ELSE IF call_type = "aresponses"
    THEN LET previous_response_id == data.previous_response_id IN
         IF Truthy(previous_response_id)
         THEN LET r == _resolve_encrypted_response_id(
                           previous_response_id, user_api_key_dict, get_raises)
              IN  IF r.exc # "none" THEN PreCallResult(r.exc, FALSE, data, r)
                  ELSE IF r.ret # None
                  THEN PreCallResult("none", FALSE,
                           [data EXCEPT !.previous_response_id = r.ret], r)
                  ELSE PreCallResult("none", FALSE, data, r)
         ELSE PreCallResult("none", FALSE, data, NotResolved)
    ELSE LET response_id == data.response_id IN
         IF Truthy(response_id)
         THEN LET r == _resolve_encrypted_response_id(
                           response_id, user_api_key_dict, get_raises)
              IN  IF r.exc # "none" THEN PreCallResult(r.exc, FALSE, data, r)
                  ELSE IF r.ret # None
                  THEN PreCallResult("none", FALSE,
                           [data EXCEPT !.response_id = r.ret], r)
                  ELSE PreCallResult("none", FALSE, data, r)
         ELSE PreCallResult("none", FALSE, data, NotResolved)

(***************************************************************************)
(* Response-ID Gate: outbound tag                                          *)
(***************************************************************************)
\* A response object: is_responses_api_response is
\* isinstance(response, ResponsesAPIResponse), id its `id` attribute,
\* response its `response` attribute: present when that attribute is a
\* ResponsesAPIResponse, with the id it carries
NoResponseObj == [present |-> FALSE, id |-> None]

ResponseObj(id) == [present |-> TRUE, id |-> id]

Response(is_rar, id, response_obj) ==
    [is_responses_api_response |-> is_rar, id |-> id, response |-> response_obj]

\* str.format of an argument: None prints as "None"
FormatArg(x) == IF x = None THEN S("None") ELSE x

_get_signing_key == signing_key

_get_primary_response_id(response) ==
    IF Truthy(response.id) /\ StartsWith(response.id, "resp_")
    THEN response.id
    ELSE IF /\ response.response.present
            /\ Truthy(response.response.id)
            /\ StartsWith(response.response.id, "resp_")
    THEN response.response.id
    ELSE None

\* tagging that does not look at whether a signing key is configured
_encrypt_without_key_test(response, user_api_key_dict) ==
    IF Truthy(response.id) /\ StartsWith(response.id, "resp_")
    THEN [response EXCEPT !.id = S("resp_") \o encrypt_value_helper(
              LITELLM_MANAGED_RESPONSE_API_RESPONSE_ID_COMPLETE_STR(
                  FormatArg(response.id), OrEmpty(user_api_key_dict.user_id),
                  OrEmpty(user_api_key_dict.team_id)))]
    ELSE IF response.response.present
    THEN [response EXCEPT !.response.id = S("resp_") \o encrypt_value_helper(
              LITELLM_MANAGED_RESPONSE_API_RESPONSE_ID_COMPLETE_STR(
                  FormatArg(response.response.id),
                  OrEmpty(user_api_key_dict.user_id),
                  OrEmpty(user_api_key_dict.team_id)))]
    ELSE response

_encrypt_response_id(response, user_api_key_dict) ==
    IF _get_signing_key = NoKey THEN response
    ELSE IF Truthy(response.id) /\ StartsWith(response.id, "resp_")
    THEN LET encrypted_response_id ==
                 LITELLM_MANAGED_RESPONSE_API_RESPONSE_ID_COMPLETE_STR(
                     FormatArg(response.id),
                     OrEmpty(user_api_key_dict.user_id),
                     OrEmpty(user_api_key_dict.team_id))
             encoded_user_id_and_response_id ==
                 encrypt_value_helper(encrypted_response_id)
         IN  [response EXCEPT !.id = S("resp_") \o encoded_user_id_and_response_id]
    ELSE IF response.response.present
    THEN LET encrypted_response_id ==
                 LITELLM_MANAGED_RESPONSE_API_RESPONSE_ID_COMPLETE_STR(
                     FormatArg(response.response.id),
                     OrEmpty(user_api_key_dict.user_id),
                     OrEmpty(user_api_key_dict.team_id))
             encoded_user_id_and_response_id ==
                 encrypt_value_helper(encrypted_response_id)
         IN  [response EXCEPT !.response.id =
                                  S("resp_") \o encoded_user_id_and_response_id]
    ELSE response

\* outcome of async_post_call_success_hook: the returned response, the cache
\* afterwards, and whether _cache_response_id_mapping was called
PostCallResult(response, cache_after, recorded) ==
    [response |-> response, cache |-> cache_after, recorded |-> recorded]

\* a post-dispatch hook that does not read disable_responses_id_security
post_call_hook_ignoring_disable(user_api_key_dict, response, set_raises) ==
    IF response.is_responses_api_response
    THEN LET original_response_id == _get_primary_response_id(response)
             tagged == _encrypt_response_id(response, user_api_key_dict)
             encrypted_response_id == _get_primary_response_id(tagged)
         IN  IF /\ Truthy(original_response_id)
                /\ Truthy(encrypted_response_id)
                /\ original_response_id # encrypted_response_id
             THEN PostCallResult(tagged,
                      _cache_response_id_mapping(encrypted_response_id,
                          original_response_id, user_api_key_dict, set_raises),
                      TRUE)
             ELSE PostCallResult(tagged, cache, FALSE)
    ELSE PostCallResult(response, cache, FALSE)

async_post_call_success_hook(user_api_key_dict, response, set_raises) ==
    IF disable_responses_id_security THEN PostCallResult(response, cache, FALSE)
    ELSE IF response.is_responses_api_response
    THEN LET original_response_id == _get_primary_response_id(response)
             tagged == _encrypt_response_id(response, user_api_key_dict)
             encrypted_response_id == _get_primary_response_id(tagged)
         IN  IF /\ Truthy(original_response_id)
                /\ Truthy(encrypted_response_id)
                /\ original_response_id # encrypted_response_id
             THEN PostCallResult(tagged,
                      _cache_response_id_mapping(encrypted_response_id,
                          original_response_id, user_api_key_dict, set_raises),
                      TRUE)
             ELSE PostCallResult(tagged, cache, FALSE)
    ELSE PostCallResult(response, cache, FALSE)

\* outcome of one turn of the loop of async_post_call_streaming_iterator_hook:
\* the chunk it yields, the cache afterwards, and whether
\* _cache_response_id_mapping was called before the yield
StreamResult(chunk, cache_after, recorded) ==
    [chunk |-> chunk, cache |-> cache_after, recorded |-> recorded]

\* the loop body without the test of the request route
stream_hook_any_route(user_api_key_dict, chunk, set_raises) ==
    IF /\ chunk.is_base_litellm_openai_response_object
       /\ ~disable_responses_id_security
    THEN LET original_response_id == _get_primary_response_id(chunk)
             tagged == _encrypt_response_id(chunk, user_api_key_dict)
             encrypted_response_id == _get_primary_response_id(tagged)
         IN  IF /\ Truthy(original_response_id)
                /\ Truthy(encrypted_response_id)
                /\ original_response_id # encrypted_response_id
             THEN StreamResult(tagged,
                      _cache_response_id_mapping(encrypted_response_id,
                          original_response_id, user_api_key_dict, set_raises),
                      TRUE)
             ELSE StreamResult(tagged, cache, FALSE)
    ELSE StreamResult(chunk, cache, FALSE)

\* one turn of `async for chunk in response: ...; yield chunk`
async_post_call_streaming_iterator_hook(user_api_key_dict, chunk, set_raises) ==
    IF /\ chunk.is_base_litellm_openai_response_object
       /\ user_api_key_dict.request_route = "/v1/responses"
       /\ ~disable_responses_id_security
    THEN LET original_response_id == _get_primary_response_id(chunk)
             tagged == _encrypt_response_id(chunk, user_api_key_dict)
             encrypted_response_id == _get_primary_response_id(tagged)
         IN  IF /\ Truthy(original_response_id)
                /\ Truthy(encrypted_response_id)
                /\ original_response_id # encrypted_response_id
             THEN StreamResult(tagged,
                      _cache_response_id_mapping(encrypted_response_id,
                          original_response_id, user_api_key_dict, set_raises),
                      TRUE)
             ELSE StreamResult(tagged, cache, FALSE)
    ELSE StreamResult(chunk, cache, FALSE)

(***************************************************************************)
(* Inputs                                                                  *)
(***************************************************************************)
Keys == {"K1"}

UserIds == {None, S("u1"), S("u2"), <<L("u2"), L(";"), L("t1")>>}

TeamIds == {None, S("t1")}

UserRoles == {PROXY_ADMIN, "internal_user"}

\* UserAPIKeyAuth
Callers ==
    [user_id : UserIds, team_id : TeamIds, user_role : UserRoles]

CallTypes == responses_api_call_types \cup {"acompletion"}

resp_a == <<L("resp_"), L("a")>>

msg_a == <<L("msg_"), L("a")>>

\* responses the provider hands to the post-dispatch hook
Responses ==
    { Response(TRUE, resp_a, NoResponseObj),
      Response(TRUE, msg_a, NoResponseObj),
      Response(TRUE, None, ResponseObj(resp_a)),
      Response(TRUE, None, ResponseObj(msg_a)),
      Response(FALSE, resp_a, NoResponseObj) }

\* a chunk of a response stream: is_base_litellm_openai_response_object is
\* isinstance(chunk, BaseLiteLLMOpenAIResponseObject)
Chunk(is_base, id, response_obj) ==
    [is_base_litellm_openai_response_object |-> is_base,
     is_responses_api_response |-> FALSE, id |-> id, response |-> response_obj]

\* chunks the provider stream hands to the streaming hook: an event wrapping
\* the response, a delta without identifier, a chunk with a top-level id, an
\* event wrapping a response whose id is not of the resp_ shape, an object
\* of another type
Chunks ==
    { Chunk(TRUE, None, ResponseObj(resp_a)),
      Chunk(TRUE, None, NoResponseObj),
      Chunk(TRUE, resp_a, NoResponseObj),
      Chunk(TRUE, None, ResponseObj(msg_a)),
      Chunk(FALSE, resp_a, NoResponseObj) }

RequestRoutes == {"/v1/responses", "/v1/chat/completions"}

\* UserAPIKeyAuth as the streaming hook reads it
StreamCallers ==
    [user_id : {None, S("u1")}, team_id : TeamIds, user_role : {"internal_user"},
     request_route : RequestRoutes]

resp_b == <<L("resp_"), L("b")>>

\* callers whose requests are in flight together: a plain one, one with no
\* user id, and two whose ids hold the delimiters of the payload
ConcurrentCallers ==
    { [user_id |-> S("u1"), team_id |-> S("t1"), user_role |-> "internal_user"],
      [user_id |-> None, team_id |-> S("t1"), user_role |-> "internal_user"],
      [user_id |-> S("u1"),
       team_id |-> <<L("t1"), L(";"), L("team_id:"), L("z")>>,
       user_role |-> "internal_user"],
      [user_id |-> <<L("u1"), L(";"), L("team_id:"), L("t1")>>,
       team_id |-> S("z"), user_role |-> "internal_user"] }

\* responses of the requests in flight together
ConcurrentResponses ==
    { Response(TRUE, resp_a, NoResponseObj),
      Response(TRUE, None, ResponseObj(resp_a)),
      Response(TRUE, resp_b, NoResponseObj) }

\* a well-formed payload sealed under another deployment's key
ForeignToken ==
    S("resp_") \o <<[c |-> "enc", k |-> "K2",
                     p |-> LITELLM_MANAGED_RESPONSE_API_RESPONSE_ID_COMPLETE_STR(
                               resp_a, S("u1"), S("t1"))]>>

\* the two-field payload of the earlier wire format
\* "litellm_proxy:responses_api:response_id:{};user_id:{}", sealed under K1
LegacyToken ==
    S("resp_") \o <<[c |-> "enc", k |-> "K1",
                     p |-> <<L(LITELM_MANAGED_FILE_ID_PREFIX), L(":responses_api:"),
                             L("response_id:")>> \o resp_a
                               \o <<L(";"), L("user_id:"), L("u1")>>]>>

\* a namespaced value of one field, sealed under K1
OneFieldToken ==
    S("resp_") \o <<[c |-> "enc", k |-> "K1",
                     p |-> <<L(LITELM_MANAGED_FILE_ID_PREFIX), L(":other")>>]>>

\* a value of another scheme sealed under K1 with the same primitive
OtherSchemeToken ==
    S("resp_") \o <<[c |-> "enc", k |-> "K1", p |-> S("secret")]>>

GarbageToken == <<L("resp_"), L("garbage")>>

\* ids a caller can present: absent, empty, plain ids, what outbound tagging
\* issued, and strings built around those
PresentedIds ==
    {None, <<>>, resp_a, msg_a, GarbageToken, ForeignToken, LegacyToken,
     OneFieldToken, OtherSchemeToken}
        \cup {i.token : i \in issued}
        \cup {S("x") \o i.token : i \in issued}

\* the request dict: the id fields of the call types, and another field
Request(id) == [previous_response_id |-> id, response_id |-> id, model |-> S("m")]

(***************************************************************************)
(* State machine                                                           *)
(***************************************************************************)
Idle == [op |-> "idle"]

Init ==
    /\ signing_key \in Keys \cup {NoKey}
    /\ disable_responses_id_security \in BOOLEAN
    /\ internal_usage_cache \in BOOLEAN
    /\ cache = {}
    /\ issued = {}
    /\ last = Idle
    /\ in_flight = <<>>

\* what a run of outbound tagging issued: the rewritten identifier, the
\* identifier it replaced, the caller it was tagged for, the key in force
IssuedBy(before, after, user_api_key_dict) ==
    IF after.id # before.id
    THEN {[token |-> after.id, plaintext |-> before.id,
           user_id |-> user_api_key_dict.user_id,
           team_id |-> user_api_key_dict.team_id, key |-> signing_key]}
    ELSE IF after.response.id # before.response.id
    THEN {[token |-> after.response.id, plaintext |-> before.response.id,
           user_id |-> user_api_key_dict.user_id,
           team_id |-> user_api_key_dict.team_id, key |-> signing_key]}
    ELSE {}

\* the pre-dispatch hook reaches async_get_cache: a cache is configured, the
\* call type carries an identifier, one is present and it is not a token
GetCalled(id, call_type) ==
    /\ internal_usage_cache
    /\ call_type \in responses_api_call_types
    /\ Truthy(id)
    /\ ~_is_encrypted_response_id(id)

\* a request reaches the pre-dispatch hook
PreCall ==
    /\ last = Idle
    /\ \E user_api_key_dict \in Callers, call_type \in CallTypes,
          id \in PresentedIds, get_raises \in BOOLEAN :
          /\ get_raises => GetCalled(id, call_type)
          /\ last' = [op |-> "pre", caller |-> user_api_key_dict,
                      call_type |-> call_type, data |-> Request(id),
                      get_raises |-> get_raises,
                      out |-> async_pre_call_hook(user_api_key_dict, Request(id),
                                                  call_type, get_raises)]
    /\ UNCHANGED <<signing_key, disable_responses_id_security,
                   internal_usage_cache, cache, issued, in_flight>>

\* a provider response reaches the post-dispatch hook
PostCall ==
    /\ last = Idle
    /\ \E user_api_key_dict \in Callers, response \in Responses,
          set_raises \in BOOLEAN :
          LET out == async_post_call_success_hook(user_api_key_dict, response,
                                                  set_raises)
              new == IssuedBy(response, out.response, user_api_key_dict)
          IN  /\ set_raises => (internal_usage_cache /\ out.recorded)
              /\ Cardinality(issued \cup new) <= MaxIssued
              /\ issued' = issued \cup new
              /\ cache' = out.cache
              /\ last' = [op |-> "post", caller |-> user_api_key_dict,
                          response |-> response, set_raises |-> set_raises,
                          out |-> out, cache_before |-> cache]
    /\ UNCHANGED <<signing_key, disable_responses_id_security,
                   internal_usage_cache, in_flight>>

\* the hook has returned (or raised) and the request is over
Return ==
    /\ last # Idle
    /\ last' = Idle
    /\ UNCHANGED <<signing_key, disable_responses_id_security,
                   internal_usage_cache, cache, issued, in_flight>>

\* the signing key read by _get_signing_key changes between requests
SetSigningKey ==
    /\ last = Idle
    /\ \E k \in Keys \cup {NoKey} :
          /\ k # signing_key
          /\ signing_key' = k
    /\ UNCHANGED <<disable_responses_id_security, internal_usage_cache, cache,
                   issued, last, in_flight>>

\* general_settings["disable_responses_id_security"] changes between requests
SetDisable ==
    /\ last = Idle
    /\ disable_responses_id_security' = ~disable_responses_id_security
    /\ UNCHANGED <<signing_key, internal_usage_cache, cache, issued, last,
                   in_flight>>

\* an entry reaches its time-to-live and is gone
Expire ==
    /\ last = Idle
    /\ \E e \in cache : cache' = cache \ {e}
    /\ UNCHANGED <<signing_key, disable_responses_id_security,
                   internal_usage_cache, issued, last, in_flight>>

\* a response stream is handed to the streaming hook
StreamStart ==
    /\ last = Idle
    /\ \E user_api_key_dict \in StreamCallers :
          last' = [op |-> "stream", caller |-> user_api_key_dict,
                   input |-> <<>>, yielded |-> <<>>, recorded |-> <<>>,
                   set_raises |-> <<>>, cache_before |-> cache]
    /\ UNCHANGED <<signing_key, disable_responses_id_security,
                   internal_usage_cache, cache, issued, in_flight>>

\* the consumer asks for the next chunk: the provider stream produces one,
\* the loop body runs on it and the chunk is yielded
StreamNext ==
    /\ last.op = "stream"
    /\ Len(last.input) < MaxChunks
    /\ \E chunk \in Chunks, set_raises \in BOOLEAN :
          LET out == async_post_call_streaming_iterator_hook(last.caller, chunk,
                                                             set_raises)
              new == IssuedBy(chunk, out.chunk, last.caller)
          IN  /\ set_raises => (internal_usage_cache /\ out.recorded)
              /\ Cardinality(issued \cup new) <= MaxIssued
              /\ issued' = issued \cup new
              /\ cache' = out.cache
              /\ last' = [last EXCEPT !.input = Append(@, chunk),
                                      !.yielded = Append(@, out.chunk),
                                      !.recorded = Append(@, out.recorded),
                                      !.set_raises = Append(@, set_raises)]
    /\ UNCHANGED <<signing_key, disable_responses_id_security,
                   internal_usage_cache, in_flight>>

Next ==
    \/ PreCall
    \/ PostCall
    \/ Return
    \/ SetSigningKey
    \/ SetDisable
    \/ Expire

Spec == Init /\ [][Next]_vars

\* the sequence without its n-th element
RemoveAt(seq, n) == SubSeq(seq, 1, n - 1) \o SubSeq(seq, n + 1, Len(seq))

\* a request's post-dispatch hook runs up to `await async_set_cache(...)`:
\* the write is handed to the cache and is in flight
BeginRecord ==
    /\ last = Idle
    /\ ~disable_responses_id_security
    /\ internal_usage_cache
    /\ Len(in_flight) < MaxInFlight
    /\ \E user_api_key_dict \in ConcurrentCallers,
          response \in ConcurrentResponses :
          LET original_response_id == _get_primary_response_id(response)
              tagged == _encrypt_response_id(response, user_api_key_dict)
              encrypted_response_id == _get_primary_response_id(tagged)
          IN  /\ Truthy(original_response_id)
              /\ Truthy(encrypted_response_id)
              /\ original_response_id # encrypted_response_id
              /\ in_flight' = Append(in_flight,
                                CacheWrite(encrypted_response_id,
                                           original_response_id,
                                           user_api_key_dict))
    /\ UNCHANGED <<signing_key, disable_responses_id_security,
                   internal_usage_cache, cache, issued, last>>

\* the cache carries out a write in flight, in whatever order they land
LandWrite ==
    /\ \E n \in 1..Len(in_flight) :
          /\ cache' = async_set_cache(in_flight[n].key, in_flight[n].value,
                                      in_flight[n].ttl)
          /\ in_flight' = RemoveAt(in_flight, n)
    /\ UNCHANGED <<signing_key, disable_responses_id_security,
                   internal_usage_cache, issued, last>>

\* a write in flight raises; the record logs it and returns
FailWrite ==
    /\ \E n \in 1..Len(in_flight) : in_flight' = RemoveAt(in_flight, n)
    /\ UNCHANGED <<signing_key, disable_responses_id_security,
                   internal_usage_cache, cache, issued, last>>

\* records of several requests in flight together
NextConcurrent ==
    \/ BeginRecord
    \/ LandWrite
    \/ FailWrite
    \/ Expire

SpecConcurrent == Init /\ [][NextConcurrent]_vars

\* The streaming hook as the async generator it is.  pc is where the
\* generator stands: "created" (not yet started), "resumed" (the consumer's
\* __anext__ runs it and `async for` awaits the provider stream), "holding"
\* (a chunk has been pulled and the loop body is at its await of the record),
\* "at_yield" (suspended at `yield chunk`), "done" (the provider stream
\* ended), "closed" (the consumer went away).
Relay(caller) ==
    [op |-> "relay", caller |-> caller, pc |-> "created", pulled |-> <<>>,
     held |-> <<>>, yielded |-> <<>>, demands |-> 0, stopped |-> FALSE,
     pulled_at_stop |-> 0]

\* a relay that asks the provider stream ahead of the consumer's demand
PullsAhead(s) == s.pc \in {"resumed", "at_yield"}

\* `async for chunk in response` asks the provider stream for a chunk only
\* while the consumer's __anext__ is running the generator
PullsUpstream(s) == s.pc = "resumed"

\* a response stream is handed to the streaming hook: the generator object
RelayStart ==
    /\ last = Idle
    /\ \E user_api_key_dict \in StreamCallers :
          last' = Relay(user_api_key_dict)
    /\ UNCHANGED <<signing_key, disable_responses_id_security,
                   internal_usage_cache, cache, issued, in_flight>>

\* the consumer asks for the next chunk: the generator runs on from where
\* it was suspended
ConsumerNext ==
    /\ last.op = "relay"
    /\ last.pc \in {"created", "at_yield"}
    /\ last.demands <= MaxChunks
    /\ last' = [last EXCEPT !.pc = "resumed", !.demands = @ + 1]
    /\ UNCHANGED <<signing_key, disable_responses_id_security,
                   internal_usage_cache, cache, issued, in_flight>>

\* the provider stream delivers a chunk; the loop body tags it and calls the
\* record
UpstreamChunk ==
    /\ last.op = "relay"
    /\ PullsUpstream(last)
    /\ Len(last.pulled) < MaxChunks
    /\ \E chunk \in Chunks, set_raises \in BOOLEAN :
          LET out == async_post_call_streaming_iterator_hook(last.caller, chunk,
                                                             set_raises)
              new == IssuedBy(chunk, out.chunk, last.caller)
          IN  /\ set_raises => (internal_usage_cache /\ out.recorded)
              /\ Cardinality(issued \cup new) <= MaxIssued
              /\ issued' = issued \cup new
              /\ cache' = out.cache
              /\ last' = [last EXCEPT !.pc = "holding",
                                      !.pulled = Append(@, chunk),
                                      !.held = Append(@, out.chunk)]
    /\ UNCHANGED <<signing_key, disable_responses_id_security,
                   internal_usage_cache, in_flight>>

\* `yield chunk`: the chunk goes downstream and the generator is suspended
Forward ==
    /\ last.op = "relay"
    /\ last.pc = "holding"
    /\ last' = [last EXCEPT !.pc = "at_yield",
                            !.yielded = Append(@, Head(last.held)),
                            !.held = Tail(@)]
    /\ UNCHANGED <<signing_key, disable_responses_id_security,
                   internal_usage_cache, cache, issued, in_flight>>

\* the provider stream ends: `async for` is over and so is the generator
UpstreamEnd ==
    /\ last.op = "relay"
    /\ PullsUpstream(last)
    /\ last' = [last EXCEPT !.pc = "done"]
    /\ UNCHANGED <<signing_key, disable_responses_id_security,
                   internal_usage_cache, cache, issued, in_flight>>

\* the consumer stops consuming: it drops or closes the generator, or its
\* task is cancelled while the generator awaits
ConsumerStop ==
    /\ last.op = "relay"
    /\ last.pc \in {"created", "resumed", "holding", "at_yield"}
    /\ last' = [last EXCEPT !.pc = "closed", !.stopped = TRUE,
                            !.pulled_at_stop = Len(last.pulled)]
    /\ UNCHANGED <<signing_key, disable_responses_id_security,
                   internal_usage_cache, cache, issued, in_flight>>

\* the streaming hook, suspension point by suspension point
NextRelay ==
    \/ RelayStart
    \/ ConsumerNext
    \/ UpstreamChunk
    \/ Forward
    \/ UpstreamEnd
    \/ ConsumerStop
    \/ Return

SpecRelay == Init /\ [][NextRelay]_vars

\* the outbound side alone: the post-dispatch hook and the streaming hook
NextOutbound ==
    \/ PostCall
    \/ StreamStart
    \/ StreamNext
    \/ Return

SpecOutbound == Init /\ [][NextOutbound]_vars

(***************************************************************************)
(* Vocabulary of the properties                                            *)
(***************************************************************************)
\* the pre-dispatch hook has run on a call type of the responses API
Resolving == last.op = "pre" /\ last.call_type \in responses_api_call_types

\* the request field that carries the identifier for a call type
IdField(data, call_type) ==
    IF call_type = "aresponses" THEN data.previous_response_id
    ELSE data.response_id

PresentedId == IdField(last.data, last.call_type)

DispatchedId == IdField(last.out.data, last.call_type)

AccessDenied == {"HTTPException_403_user", "HTTPException_403_team"}

NonAdmin == last.caller.user_role # PROXY_ADMIN

\* the caller differs from an owner on an axis the owner has set
UserMismatch(owner_user_id) ==
    Truthy(owner_user_id) /\ owner_user_id # last.caller.user_id

TeamMismatch(owner_team_id) ==
    Truthy(owner_team_id) /\ owner_team_id # last.caller.team_id

\* the presented id is a token of outbound tagging that the key in force opens
PresentedIssued(i) == i.token = PresentedId /\ i.key = signing_key

(***************************************************************************)
(* C1  Tenant isolation: with security enabled, a token that outbound      *)
(* tagging issued to an owner with a user or team set, presented by a      *)
(* non-admin caller who differs from the owner on a set axis, never puts   *)
(* the plaintext id into the request, and is rejected with 403 whenever    *)
(* the token is decodable with the key in force.                           *)
(***************************************************************************)
C1_TenantIsolation ==
    (Resolving /\ ~disable_responses_id_security /\ NonAdmin) =>
        \A i \in issued :
            (/\ i.token = PresentedId
             /\ (UserMismatch(i.user_id) \/ TeamMismatch(i.team_id)))
            => /\ DispatchedId # i.plaintext
               /\ (i.key = signing_key => last.out.exc \in AccessDenied)

(***************************************************************************)
(* C2  Round trip: with a signing key configured, decoding the token that  *)
(* outbound tagging produced returns the plaintext id, the user id and the *)
(* team id it was created with (an absent id read as the empty one).       *)
(***************************************************************************)
C2_RoundTrip ==
    (last.op = "post" /\ signing_key # NoKey) =>
        \A i \in IssuedBy(last.response, last.out.response, last.caller) :
            LET d == _decrypt_response_id(i.token) IN
            /\ d.exc = "none"
            /\ d.original_response_id = i.plaintext
            /\ d.user_id = OrEmpty(i.user_id)
            /\ d.team_id = OrEmpty(i.team_id)

(***************************************************************************)
(* C3  Fail-open decode: a presented string that tagging did not produce   *)
(* (no resp_ marker as its prefix, garbage after the marker, sealed under  *)
(* another key) is never taken for a token, and decoding it never raises.  *)
(***************************************************************************)
NotProducedByTag(id) ==
    \/ ~StartsWith(id, "resp_")
    \/ id \in {GarbageToken, ForeignToken}

C3_FailOpenDecode ==
    (Resolving /\ Truthy(PresentedId) /\ NotProducedByTag(PresentedId)) =>
        /\ ~_is_encrypted_response_id(PresentedId)
        /\ last.out.res.path # "token"
        /\ last.out.exc # "IndexError"

(***************************************************************************)
(* C4  Only authorization denial aborts a request: the pre-dispatch hook   *)
(* returns, or raises the 403 of access control; nothing else escapes.     *)
(***************************************************************************)
C4_OnlyDenialAborts ==
    last.op = "pre" => last.out.exc \in {"none"} \cup AccessDenied

(***************************************************************************)
(* C5  Admin override: the access check never denies a proxy admin,        *)
(* whatever the owner and whether or not security is disabled; an admin    *)
(* presenting a token of outbound tagging that the key in force opens gets *)
(* the request field rewritten to the plaintext id.                        *)
(***************************************************************************)
C5_AdminOverride ==
    (Resolving /\ ~NonAdmin) =>
        /\ last.out.exc \notin AccessDenied
        /\ \A i \in issued :
               PresentedIssued(i) =>
                   /\ last.out.exc = "none"
                   /\ last.out.res.checked
                   /\ DispatchedId = i.plaintext

C5_Witness ==
    /\ Resolving /\ ~NonAdmin /\ ~disable_responses_id_security
    /\ \E i \in issued :
           /\ PresentedIssued(i)
           /\ UserMismatch(i.user_id) /\ TeamMismatch(i.team_id)
           /\ DispatchedId = i.plaintext
           /\ DispatchedId # PresentedId

(***************************************************************************)
(* C6  Deny ordering: for a non-admin caller with security enabled, a user *)
(* mismatch always gives the user rejection, also when the team differs    *)
(* too; the team rejection occurs only when the owner's user is unset or   *)
(* equals the caller's, and the owner's team is set and differs.           *)
(***************************************************************************)
C6_DenyOrdering ==
    (Resolving /\ NonAdmin /\ ~disable_responses_id_security
       /\ last.out.res.checked) =>
        /\ UserMismatch(last.out.res.chk_user)
               => last.out.exc = "HTTPException_403_user"
        /\ last.out.exc = "HTTPException_403_team"
               => /\ ~UserMismatch(last.out.res.chk_user)
                  /\ TeamMismatch(last.out.res.chk_team)
        /\ (~UserMismatch(last.out.res.chk_user)
              /\ TeamMismatch(last.out.res.chk_team))
               => last.out.exc = "HTTPException_403_team"

C6_Witness ==
    /\ Resolving /\ NonAdmin /\ ~disable_responses_id_security
    /\ last.out.res.checked
    /\ UserMismatch(last.out.res.chk_user)
    /\ TeamMismatch(last.out.res.chk_team)
    /\ last.out.exc = "HTTPException_403_user"

(***************************************************************************)
(* C7  Disabled bypass: with disable_responses_id_security set, the        *)
(* pre-dispatch hook never raises the 403, and a token of outbound tagging *)
(* that the key in force opens resolves to the plaintext id for any        *)
(* caller.                                                                 *)
(***************************************************************************)
C7_DisabledBypass ==
    (Resolving /\ disable_responses_id_security) =>
        /\ last.out.exc \notin AccessDenied
        /\ \A i \in issued :
               PresentedIssued(i) =>
                   /\ last.out.exc = "none"
                   /\ DispatchedId = i.plaintext

C7_Witness ==
    /\ Resolving /\ disable_responses_id_security /\ NonAdmin
    /\ \E i \in issued :
           /\ PresentedIssued(i)
           /\ ~UserMismatch(i.user_id) /\ TeamMismatch(i.team_id)
           /\ last.out.res.checked
           /\ DispatchedId = i.plaintext

(***************************************************************************)
(* C8  Unconstrained owner: an owner axis that is unset (absent or empty)  *)
(* never causes a denial, and an owner with neither user nor team set is   *)
(* accessible to every caller.                                             *)
(***************************************************************************)
C8_UnconstrainedOwner ==
    (Resolving /\ last.out.res.checked) =>
        /\ last.out.exc = "HTTPException_403_user"
               => Truthy(last.out.res.chk_user)
        /\ last.out.exc = "HTTPException_403_team"
               => Truthy(last.out.res.chk_team)
        /\ (~Truthy(last.out.res.chk_user) /\ ~Truthy(last.out.res.chk_team))
               => last.out.exc = "none"

C8_Witness ==
    /\ Resolving /\ NonAdmin /\ ~disable_responses_id_security
    /\ last.out.res.checked
    /\ ~Truthy(last.out.res.chk_user) /\ ~Truthy(last.out.res.chk_team)
    /\ Truthy(last.caller.user_id) /\ Truthy(last.caller.team_id)
    /\ last.out.exc = "none"

(***************************************************************************)
(* C9  Untagged passthrough: when the presented id is not a decodable      *)
(* token and the lookup finds no cache entry for it, the hook returns the  *)
(* request as it came and the access check is not called.                  *)
(***************************************************************************)
\* the lookup of id comes back absent: no cache, a failing cache, no entry
LookupAbsent(id) ==
    \/ ~internal_usage_cache
    \/ last.get_raises
    \/ ~\E e \in cache : e.key = CacheKey(id)

C9_UntaggedPassthrough ==
    (/\ Resolving /\ Truthy(PresentedId)
     /\ ~_is_encrypted_response_id(PresentedId)
     /\ LookupAbsent(PresentedId)) =>
        /\ last.out.exc = "none"
        /\ last.out.data = last.data
        /\ ~last.out.res.checked

C9_Witness ==
    /\ Resolving /\ NonAdmin /\ ~disable_responses_id_security
    /\ signing_key = NoKey
    /\ \E i \in issued :
           /\ i.token = PresentedId
           /\ UserMismatch(i.user_id)
    /\ LookupAbsent(PresentedId)
    /\ last.out.exc = "none"
    /\ last.out.data = last.data

(***************************************************************************)
(* C10  Access control through the cache path: when the presented id is    *)
(* not a decodable token and the lookup returns an entry, the caller is    *)
(* checked against the entry's owner: a non-admin caller with security     *)
(* enabled who differs on a set axis is rejected with 403, anyone else     *)
(* gets the request field set to the entry's response id.                  *)
(***************************************************************************)
C10_CachePathAccessControl ==
    (/\ Resolving /\ Truthy(PresentedId)
     /\ ~_is_encrypted_response_id(PresentedId)
     /\ ~LookupAbsent(PresentedId)) =>
        LET entry == (CHOOSE e \in cache : e.key = CacheKey(PresentedId)).value
            denied == /\ NonAdmin /\ ~disable_responses_id_security
                      /\ \/ UserMismatch(entry.user_id)
                         \/ TeamMismatch(entry.team_id)
        IN  /\ denied => /\ last.out.exc \in AccessDenied
                         /\ last.out.data = last.data
            /\ ~denied => /\ last.out.exc = "none"
                          /\ DispatchedId = entry.response_id
            /\ last.out.exc = "HTTPException_403_user"
                   <=> (denied /\ UserMismatch(entry.user_id))

C10_Witness ==
    /\ Resolving /\ NonAdmin /\ ~disable_responses_id_security
    /\ signing_key = NoKey
    /\ ~LookupAbsent(PresentedId)
    /\ \E i \in issued :
           /\ i.token = PresentedId
           /\ ~UserMismatch(i.user_id) /\ TeamMismatch(i.team_id)
    /\ last.out.exc = "HTTPException_403_team"


(***************************************************************************)
(* Vocabulary of the outbound properties                                   *)
(***************************************************************************)
\* the post-dispatch hook has run on a response of the responses API
Tagging == last.op = "post" /\ last.response.is_responses_api_response

\* the streaming hook is relaying a stream of the responses route
Relaying == last.op = "stream" /\ last.caller.request_route = "/v1/responses"

\* positions of the chunks relayed so far
Relayed == IF last.op = "stream" THEN 1..Len(last.input) ELSE {}

\* the position holds a chunk of the response types that carries an
\* identifier of the response-id shape
IdentifierBearing(n) ==
    /\ last.input[n].is_base_litellm_openai_response_object
    /\ _get_primary_response_id(last.input[n]) # None

(***************************************************************************)
(* C11  No signing key: with no signing key configured, the post-dispatch  *)
(* hook returns the response it was given and the streaming hook yields    *)
(* the chunks it was given, identifiers unchanged, and neither calls the   *)
(* record operation or changes the cache.                                  *)
(***************************************************************************)
C11_NoSigningKey ==
    signing_key = NoKey =>
        /\ last.op = "post" =>
               /\ last.out.response = last.response
               /\ ~last.out.recorded
               /\ cache = last.cache_before
        /\ last.op = "stream" =>
               /\ last.yielded = last.input
               /\ \A n \in Relayed : ~last.recorded[n]
               /\ cache = last.cache_before

C11_Witness ==
    /\ signing_key = NoKey
    /\ ~disable_responses_id_security
    /\ internal_usage_cache
    /\ Relaying
    /\ Len(last.input) = MaxChunks
    /\ \E n \in Relayed : IdentifierBearing(n)
    /\ last.yielded = last.input


(***************************************************************************)
(* Vocabulary of the cache properties                                      *)
(***************************************************************************)
\* lookup of a token when the cache answers
lookup(token) == _get_cached_response_id_mapping(token, FALSE)

\* the entry that record writes for an issued token
EntryOf(i) ==
    [key |-> S(RESPONSE_ID_SECURITY_CACHE_PREFIX) \o i.token,
     value |-> [is_none |-> FALSE, response_id |-> i.plaintext,
                user_id |-> i.user_id, team_id |-> i.team_id],
     ttl |-> 86400]

\* what the post-dispatch hook issued in the step just taken
JustIssued == IssuedBy(last.response, last.out.response, last.caller)

(***************************************************************************)
(* C12  Cache mapping lifetime: every entry of the cache is the entry      *)
(* {response id, user id, team id} recorded for an issued token, under the *)
(* namespaced key of that token and with the 24-hour time-to-live; right   *)
(* after a record that the cache accepted, lookup of the token returns     *)
(* that entry; lookup of an identifier never recorded returns absent;      *)
(* lookup of an issued token returns the entry recorded for it while the   *)
(* entry is in the cache, and absent when the record never landed or the   *)
(* entry has expired.                                                      *)
(***************************************************************************)
C12_CacheMappingLifetime ==
    /\ \A e \in cache : \E i \in issued : e = EntryOf(i)
    /\ (/\ last.op = "post"
        /\ last.out.recorded
        /\ internal_usage_cache
        /\ ~last.set_raises) =>
           \A i \in JustIssued :
               /\ EntryOf(i) \in cache
               /\ lookup(i.token) = EntryOf(i).value
    /\ internal_usage_cache =>
           /\ \A id \in {resp_a, msg_a, GarbageToken, ForeignToken} :
                  lookup(id) = NoMapping
           /\ \A i \in issued :
                  lookup(i.token) = IF EntryOf(i) \in cache
                                    THEN EntryOf(i).value
                                    ELSE NoMapping

\* the hook's own lookup of a token that no longer decodes finds the entry
\* that was recorded when the token was issued
C12_Witness ==
    /\ Resolving
    /\ last.out.res.path = "cache"
    /\ ~last.get_raises
    /\ \E i \in issued :
           /\ i.token = PresentedId
           /\ EntryOf(i) \in cache
           /\ DispatchedId = i.plaintext
           /\ last.out.res.chk_user = i.user_id
           /\ last.out.res.chk_team = i.team_id


(***************************************************************************)
(* Vocabulary of the tagging properties                                    *)
(***************************************************************************)
\* tag(id, owner): the token for an identifier and a caller, the identifier
\* itself when no signing key is configured
Tag(id, caller) ==
    IF signing_key = NoKey THEN id
    ELSE <<L("resp_"),
           [c |-> "enc", k |-> signing_key,
            p |-> <<L("litellm_proxy"), L(":responses_api:"), L("response_id:")>>
                    \o id \o <<L(";"), L("user_id:")>>
                    \o (IF caller.user_id = None THEN <<>> ELSE caller.user_id)
                    \o <<L(";"), L("team_id:")>>
                    \o (IF caller.team_id = None THEN <<>> ELSE caller.team_id)]>>

\* the object with its primary identifier replaced, all else as it was
WithPrimaryId(obj, id) ==
    IF obj.id = _get_primary_response_id(obj) THEN [obj EXCEPT !.id = id]
    ELSE [obj EXCEPT !.response.id = id]

(***************************************************************************)
(* C13  Stream relay transparency: on the responses route with security    *)
(* enabled the streaming hook has yielded one chunk for each chunk it was  *)
(* given, in the same order; a chunk that carries an identifier is yielded *)
(* with the identifier tagged and nothing else changed, after a record if  *)
(* the identifier changed; a chunk that carries no identifier is yielded   *)
(* as it came.                                                             *)
(***************************************************************************)
C13_StreamRelayTransparency ==
    (Relaying /\ ~disable_responses_id_security) =>
        /\ Len(last.yielded) = Len(last.input)
        /\ \A n \in Relayed :
               IF IdentifierBearing(n)
               THEN LET id == _get_primary_response_id(last.input[n])
                        token == Tag(id, last.caller)
                    IN  /\ last.yielded[n] = WithPrimaryId(last.input[n], token)
                        /\ token # id => last.recorded[n]
               ELSE last.yielded[n] = last.input[n]


(***************************************************************************)
(* C14  Pre-dispatch field mapping: the request that leaves the            *)
(* pre-dispatch hook differs from the one that entered at most in          *)
(* previous_response_id for aresponses and at most in response_id for      *)
(* aget_responses, adelete_responses and acancel_responses; for any other  *)
(* call type it is the request that entered.                               *)
(***************************************************************************)
C14_FieldMapping ==
    last.op = "pre" =>
        /\ last.out.data.model = last.data.model
        /\ last.call_type = "aresponses"
               => last.out.data.response_id = last.data.response_id
        /\ last.call_type \in {"aget_responses", "adelete_responses",
                               "acancel_responses"}
               => last.out.data.previous_response_id
                      = last.data.previous_response_id
        /\ last.call_type \notin {"aresponses", "aget_responses",
                                  "adelete_responses", "acancel_responses"}
               => last.out.data = last.data

C14_Witness ==
    /\ last.op = "pre"
    /\ last.call_type = "adelete_responses"
    /\ last.data.previous_response_id = last.data.response_id
    /\ last.out.data.response_id # last.data.response_id
    /\ last.out.data.previous_response_id = last.data.previous_response_id


(***************************************************************************)
(* C15  Malformed namespaced payload: a token that the key in force opens  *)
(* to a payload which starts with the namespace marker and has fewer than  *)
(* three semicolon-delimited fields (one field, or two) decodes to the     *)
(* token itself with no user and no team, and neither the decoding nor the *)
(* hook that runs it raises.                                               *)
(***************************************************************************)
Semicolons(p) == Cardinality({n \in 1..Len(p) : p[n] = L(";")})

MalformedNamespaced(id) ==
    /\ signing_key # NoKey
    /\ Len(id) = 2
    /\ id[1] = L("resp_")
    /\ id[2].c = "enc" /\ id[2].k = signing_key
    /\ Len(id[2].p) > 0
    /\ id[2].p[1] = L("litellm_proxy")
    /\ Semicolons(id[2].p) < 2

C15_MalformedPayloadFallback ==
    (Resolving /\ Truthy(PresentedId) /\ MalformedNamespaced(PresentedId)) =>
        /\ _decrypt_response_id(PresentedId) = Decoded(PresentedId, None, None)
        /\ last.out.exc = "none"


(***************************************************************************)
(* C16  Outbound shape guard: a response or chunk none of whose            *)
(* identifiers, the top-level id or the id nested one level inside, is a   *)
(* string starting with resp_ leaves outbound tagging as it came.          *)
(***************************************************************************)
ResponseIdShape(id) == id # None /\ Len(id) > 0 /\ id[1] = L("resp_")

NoShapedId(obj) ==
    /\ ~ResponseIdShape(obj.id)
    /\ ~(obj.response.present /\ ResponseIdShape(obj.response.id))

C16_OutboundShapeGuard ==
    /\ (last.op = "post" /\ NoShapedId(last.response))
           => last.out.response = last.response
    /\ last.op = "stream" =>
           \A n \in Relayed :
               NoShapedId(last.input[n]) => last.yielded[n] = last.input[n]


(***************************************************************************)
(* C17  Record on every rewrite: with a cache configured, a response that  *)
(* the post-dispatch hook returns changed, and a chunk that the streaming  *)
(* hook yields changed, has had the record operation called for it first;  *)
(* and when the cache accepted the record of the post-dispatch hook, the   *)
(* entry (token -> plaintext id, caller's user id, caller's team id) is in *)
(* the cache when the response is returned.                                *)
(***************************************************************************)
C17_RecordOnEveryRewrite ==
    internal_usage_cache =>
        /\ (last.op = "post" /\ last.out.response # last.response) =>
               /\ last.out.recorded
               /\ ~last.set_raises => \A i \in JustIssued : EntryOf(i) \in cache
        /\ last.op = "stream" =>
               \A n \in Relayed :
                   last.yielded[n] # last.input[n] => last.recorded[n]


(***************************************************************************)
(* C18  Cache failures never surface: when the cache raises on the set of  *)
(* a record, the cache is left as it was and the post-dispatch hook still  *)
(* returns the response with its identifier tagged; when the cache raises  *)
(* on a get, the lookup is absent and the pre-dispatch hook lets the       *)
(* identifier through as it does for a missing entry; with no cache        *)
(* configured nothing is ever stored and every lookup is absent.           *)
(***************************************************************************)
C18_CacheFailuresNeverSurface ==
    /\ (last.op = "post" /\ last.set_raises /\ last.out.recorded) =>
           LET id == _get_primary_response_id(last.response) IN
           /\ cache = last.cache_before
           /\ last.out.response
                  = WithPrimaryId(last.response, Tag(id, last.caller))
    /\ (Resolving /\ last.get_raises /\ Truthy(PresentedId)) =>
           /\ _get_cached_response_id_mapping(PresentedId, TRUE) = NoMapping
           /\ last.out.res.path # "cache"
           /\ last.out.res.path # "token" =>
                  /\ last.out.exc = "none"
                  /\ last.out.data = last.data
    /\ ~internal_usage_cache =>
           /\ cache = {}
           /\ last.op = "post" => cache = last.cache_before
           /\ Resolving => last.out.res.path # "cache"
           /\ \A id \in PresentedIds \ {None} : lookup(id) = NoMapping

\* the get raises for a token whose entry is stored and which no longer
\* decodes: the identifier goes through unresolved
C18_Witness ==
    /\ Resolving
    /\ last.get_raises
    /\ signing_key = NoKey
    /\ \E i \in issued : i.token = PresentedId /\ EntryOf(i) \in cache
    /\ last.out.exc = "none"
    /\ last.out.data = last.data


(***************************************************************************)
(* C19  Streaming gate: the streaming hook yields a chunk changed only     *)
(* when the caller's request route is /v1/responses and security is not    *)
(* disabled; on any other route, or with security disabled, it yields      *)
(* every chunk as it came, calls no record and leaves the cache as it was. *)
(***************************************************************************)
C19_StreamingGate ==
    last.op = "stream" =>
        /\ \A n \in Relayed :
               last.yielded[n] # last.input[n] =>
                   /\ last.caller.request_route = "/v1/responses"
                   /\ ~disable_responses_id_security
        /\ (\/ last.caller.request_route # "/v1/responses"
            \/ disable_responses_id_security) =>
               /\ last.yielded = last.input
               /\ \A n \in Relayed : ~last.recorded[n]
               /\ cache = last.cache_before

C19_Witness ==
    /\ last.op = "stream"
    /\ last.caller.request_route # "/v1/responses"
    /\ signing_key # NoKey
    /\ ~disable_responses_id_security
    /\ internal_usage_cache
    /\ Len(last.input) = MaxChunks
    /\ \E n \in Relayed : IdentifierBearing(n)
    /\ last.yielded = last.input


(***************************************************************************)
(* C20  Idempotent concurrent writes: among the writes in flight and the   *)
(* entries stored, any two for the same token carry the same entry, so     *)
(* whichever order the writes land in, the cache holds for a token what a  *)
(* single write would have stored.                                         *)
(***************************************************************************)
Writes == {in_flight[n] : n \in 1..Len(in_flight)} \cup cache

C20_IdempotentConcurrentWrites ==
    \A w1, w2 \in Writes : w1.key = w2.key => w1.value = w2.value


(***************************************************************************)
(* C21  No buffering in the stream relay: the streaming hook has pulled    *)
(* no more chunks from the provider stream than the consumer has asked     *)
(* for; it asks the provider stream for a chunk only when every chunk      *)
(* pulled before has been forwarded, so it holds at most one chunk; and    *)
(* once the consumer has stopped, it has pulled no chunk since.            *)
(***************************************************************************)
C21_NoBuffering ==
    last.op = "relay" =>
        /\ Len(last.pulled) <= last.demands
        /\ Len(last.held) <= 1
        /\ Len(last.pulled) <= Len(last.yielded) + 1
        /\ last.pc = "resumed" => Len(last.pulled) = Len(last.yielded)
        /\ last.pc \in {"at_yield", "done"} => last.held = <<>>
        /\ last.stopped => Len(last.pulled) = last.pulled_at_stop

\* the consumer stopped after its first chunk while the provider stream
\* had more to give
C21_Witness ==
    /\ last.op = "relay"
    /\ last.stopped
    /\ Len(last.yielded) = 1
    /\ Len(last.pulled) = 1
    /\ Len(last.pulled) < MaxChunks


(***************************************************************************)
(* C22  Token path and cache path agree: for every issued token that the   *)
(* key in force opens and whose record is in the cache, and for every      *)
(* caller, the access check on the owner decoded from the token and the    *)
(* access check on the owner of the cache entry both allow or both deny,   *)
(* and when they allow, the decoded plaintext id is the entry's.           *)
(***************************************************************************)
C22_TokenAndCachePathAgree ==
    internal_usage_cache =>
        \A i \in issued :
            (i.key = signing_key /\ EntryOf(i) \in cache) =>
                LET d == _decrypt_response_id(i.token)
                    e == lookup(i.token)
                IN  /\ d.exc = "none"
                    /\ \A caller \in Callers :
                           LET by_token == check_user_access_to_response_id(
                                               d.user_id, d.team_id, caller)
                               by_cache == check_user_access_to_response_id(
                                               e.user_id, e.team_id, caller)
                           IN  /\ (by_token = "True") <=> (by_cache = "True")
                               /\ by_token = "True"
                                      => d.original_response_id = e.response_id


(***************************************************************************)
(* C23  Disabled outbound: with security disabled, the post-dispatch hook  *)
(* returns the response it was given, identifier and all, calls no record  *)
(* and leaves the cache as it was, whatever the response and the caller.   *)
(***************************************************************************)
C23_DisabledOutbound ==
    (last.op = "post" /\ disable_responses_id_security) =>
        /\ last.out.response = last.response
        /\ ~last.out.recorded
        /\ cache = last.cache_before

C23_Witness ==
    /\ last.op = "post"
    /\ disable_responses_id_security
    /\ signing_key # NoKey
    /\ internal_usage_cache
    /\ last.response.is_responses_api_response
    /\ last.response.id = resp_a
    /\ last.out.response.id = resp_a
    /\ cache = {}


(***************************************************************************)
(* C24  Request unchanged on denial: when the pre-dispatch hook raises the *)
(* 403 of the access check, the request is as it was on entry: the         *)
(* identifier field still holds the id the caller sent, and for a token of *)
(* outbound tagging never the plaintext id behind it.                      *)
(***************************************************************************)
C24_RequestUnchangedOnDenial ==
    (last.op = "pre" /\ last.out.exc \in AccessDenied) =>
        /\ last.out.data = last.data
        /\ DispatchedId = PresentedId
        /\ \A i \in issued : i.token = PresentedId => DispatchedId # i.plaintext

C24_Witness ==
    /\ Resolving
    /\ last.out.exc = "HTTPException_403_user"
    /\ last.out.res.path = "token"
    /\ \E i \in issued : PresentedIssued(i)
    /\ last.out.data = last.data


(***************************************************************************)
(* C25  Ownership is reachable only through the opaque token: no cache     *)
(* entry is filed under the plaintext id of an issued token; and when a    *)
(* caller presents, instead of the token, the plaintext id that outbound   *)
(* tagging has tagged and recorded, the pre-dispatch hook finds no entry,  *)
(* runs no access check, raises nothing and leaves the request as it was.  *)
(***************************************************************************)
C25_OwnershipOnlyThroughToken ==
    /\ \A i \in issued, e \in cache :
           e.key # S(RESPONSE_ID_SECURITY_CACHE_PREFIX) \o i.plaintext
    /\ (/\ Resolving
        /\ \E i \in issued : i.plaintext = PresentedId /\ EntryOf(i) \in cache)
           => /\ last.out.res.path = "none"
              /\ ~last.out.res.checked
              /\ last.out.exc = "none"
              /\ last.out.data = last.data

\* a non-admin caller who is not the owner presents the recorded plaintext
\* id with security enabled
C25_Witness ==
    /\ Resolving /\ NonAdmin /\ ~disable_responses_id_security
    /\ ~last.get_raises
    /\ \E i \in issued :
           /\ i.plaintext = PresentedId
           /\ EntryOf(i) \in cache
           /\ UserMismatch(i.user_id)
    /\ last.out.data = last.data

=============================================================================
